---- MODULE Spec2Model ----
(***************************************************************************)
(* Session & Message Relay of the chat server (server/index.js).           *)
(*                                                                         *)
(* The document store is the variable db.  Every request is a call; a call *)
(* whose handler awaits the store or the provider more than once is split  *)
(* at its awaits, one action per segment, so that the segments of          *)
(* concurrent calls interleave exactly where the event loop lets them.     *)
(* The response a handler sends is written to the variable out.            *)
(***************************************************************************)
EXTENDS Integers, Sequences, FiniteSets, TLC

\* ------------------------------------------------------------------ bounds

\* Number of requests the server receives in one behaviour.
MaxCalls == 3

Calls == 1..MaxCalls

\* ------------------------------------------------------------ value spaces

Users == {"u1", "u2"}

\* req.userId when no identity was established.
NoUser == "nobody"

\* Bearer credentials: a valid token of each user, and one that does not verify.
BadCred == "bad"
Creds == Users \cup {BadCred}

\* An absent value (JavaScript undefined) in a place that holds text.
Undefined == <<"undefined">>

\* Text is a sequence of characters.
Empty == <<>>
Word  == <<"h", "i">>

\* req.body.input: missing, empty, or a message.
Utterances == {Undefined, Empty, Word}

\* An input of whitespace only, which the server can be sent although the
\* client trims what it sends.
Blank == <<" ">>

\* The inputs of a caller that sends nothing but the empty string or
\* whitespace.
BlankUtterances == {Empty, Blank}

\* In input.slice(0, 50) and input.length > 50
TitleLimit == 50

\* A text of n characters.
Text(n) == [i \in 1..n |-> "a"]

\* Inputs about as long as a title may be.
LongUtterances == {Text(TitleLimit - 1), Text(TitleLimit), Text(TitleLimit + 1)}

\* req.body.title of a caller that names its sessions: missing, empty, or a
\* title.
GivenTitleHints == {Undefined, Empty, <<"T">>}

\* req.body.title: missing, or 'New Chat' as the client sends it.
TitleHints == {Undefined, <<"N", "e", "w", " ", "C", "h", "a", "t">>}

\* A session id that is not a well-formed ObjectId.
BadId == 0

NoToken == 0

\* ------------------------------------------------------------------- state

VARIABLES
    db,        \* the ChatSession collection: id -> document
    nextId,    \* the next ObjectId the store hands out
    nextTok,   \* the next value crypto.randomBytes yields
    now,       \* the clock new Date() reads
    apiKey,    \* whether process.env.GEMINI_API_KEY is set
    calls,     \* the requests: position and locals of each handler
    started,   \* how many requests have arrived
    out,       \* the response sent last
    creator,   \* history: id -> the userId the session was created for
    landed,    \* history: the $push updates that modified a document
    retitled,  \* history: the title updates that modified a document
    granted,   \* history: the share and delete calls answered with success, in order
    carried    \* history: the share tokens written to each session

vars == <<db, nextId, nextTok, now, apiKey, calls, started, out, creator, landed,
          retitled, granted, carried>>

\* ----------------------------------------------------------------- helpers

\* JavaScript truthiness of a text value: undefined and '' are falsy.
Falsy(x) == x = Undefined \/ x = Empty

\* String.prototype.slice(0, n)
Slice(s, n) == SubSeq(s, 1, IF Len(s) < n THEN Len(s) ELSE n)

\* String.prototype.includes, on a body held as a sequence of tokens
Includes(body, tok) == \E i \in 1..Len(body) : body[i] = tok

\* mongoose.Types.ObjectId.isValid
IsValidObjectId(sid) == sid # BadId

\* authMiddleware: the userId a bearer credential verifies to, NoUser when it does not
Verify(cred) == IF cred \in Users THEN cred ELSE NoUser

\* the ownership test of every session handler
IsOwner(doc, userId) == doc.owner = userId

\* ChatSession.findById: <<document>>, or <<>> for null
FindById(d, sid) == IF sid \in DOMAIN d THEN <<d[sid]>> ELSE <<>>

\* ChatSession.findOne({ shareToken }): a matching document's id, 0 when none matches
FindIdByShareToken(d, token) ==
    IF \E s \in DOMAIN d : d[s].shareToken = token
    THEN CHOOSE s \in DOMAIN d : d[s].shareToken = token
    ELSE 0

\* --------------------------------------------------------- session records

DefaultTitle == <<"N", "e", "w", " ", "C", "h", "a", "t">>

Ellipsis == <<".", ".", ".">>

\* Variant: the title of the request is not read.
CreateTitleAlwaysDefault(hint) == DefaultTitle

\* req.body.title || 'New Chat'
CreateTitle(hint) == IF Falsy(hint) THEN DefaultTitle ELSE hint

\* The fields the schema fills in when create() does not give them.
SchemaDefaults(t) == [shareToken |-> NoToken, lastUpdated |-> t]

\* ChatSession.create({ title, owner: req.userId, messages: [] })
NewSession(title, userId, t) ==
    [title |-> title, owner |-> userId, messages |-> <<>>,
     shareToken |-> SchemaDefaults(t).shareToken,
     lastUpdated |-> SchemaDefaults(t).lastUpdated]

\* One entry of messages; call records which request wrote it (history only).
Message(role, content, c) == [role |-> role, content |-> content, call |-> c]

\* Variant: the update pushes the user entry alone.
PushPairUserOnly(doc, input, reply, t, c) ==
    [doc EXCEPT !.messages = Append(@, Message("user", input, c)),
                !.lastUpdated = t]

\* Variant: the update sets messages to the pair instead of pushing onto it.
PushPairOverwrite(doc, input, reply, t, c) ==
    [doc EXCEPT !.messages = << Message("user", input, c),
                                Message("assistant", reply, c) >>,
                !.lastUpdated = t]

\* { $push: { messages: [user, assistant] }, lastUpdated: new Date() }
PushPair(doc, input, reply, t, c) ==
    [doc EXCEPT !.messages = @ \o << Message("user", input, c),
                                     Message("assistant", reply, c) >>,
                !.lastUpdated = t]

\* Variant: input.length >= 50
DeriveTitleFromLimit(input) ==
    Slice(input, TitleLimit) \o (IF Len(input) >= TitleLimit THEN Ellipsis ELSE <<>>)

\* input.slice(0, 50) + (input.length > 50 ? '...' : '')
DeriveTitle(input) ==
    Slice(input, TitleLimit) \o (IF Len(input) > TitleLimit THEN Ellipsis ELSE <<>>)

\* Variant: the title update replaces the document's optional fields.
SetTitleReplacing(doc, title) == [doc EXCEPT !.title = title, !.shareToken = NoToken]

\* findByIdAndUpdate(sessionId, { title })
SetTitle(doc, title) == [doc EXCEPT !.title = title]

\* Variant: the update replaces the document, keeping only what it names.
SetShareTokenReplacing(doc, token) ==
    [doc EXCEPT !.shareToken = token, !.owner = NoUser]

\* Variant: a session that has a token keeps it.
SetShareTokenKeepsFirst(doc, token) ==
    IF doc.shareToken # NoToken THEN doc ELSE [doc EXCEPT !.shareToken = token]

\* findByIdAndUpdate(sessionId, { shareToken })
SetShareToken(doc, token) == [doc EXCEPT !.shareToken = token]

\* Variant: sort({ lastUpdated: 1 }).
RECURSIVE SortAsc(_, _)
SortAsc(d, ids) ==
    IF ids = {} THEN <<>>
    ELSE LET top == CHOOSE s \in ids :
                       \A u \in ids : d[u].lastUpdated > d[s].lastUpdated
                                      \/ (d[u].lastUpdated = d[s].lastUpdated /\ u >= s)
         IN  <<top>> \o SortAsc(d, ids \ {top})

\* find({ owner }).sort({ lastUpdated: -1 }): the ids, most recently updated first
RECURSIVE SortDesc(_, _)
SortDesc(d, ids) ==
    IF ids = {} THEN <<>>
    ELSE LET top == CHOOSE s \in ids :
                       \A u \in ids : d[u].lastUpdated < d[s].lastUpdated
                                      \/ (d[u].lastUpdated = d[s].lastUpdated /\ u >= s)
         IN  <<top>> \o SortDesc(d, ids \ {top})

OwnedBy(d, userId) == {s \in DOMAIN d : d[s].owner = userId}

\* ----------------------------------------------------------- the provider

\* What fetch() resolves to: the status line, the error body, and the two
\* fields of the JSON body the handler reads.
ProviderResponse(ok, status, body, text, blockReason) ==
    [ok |-> ok, status |-> status, body |-> body, text |-> text,
     blockReason |-> blockReason]

ProviderResponses ==
    { ProviderResponse(TRUE, 200, <<>>, <<"r">>, Undefined),
      ProviderResponse(TRUE, 200, <<>>, Undefined, <<"SAFETY">>),
      ProviderResponse(TRUE, 200, <<>>, Empty, Undefined),
      ProviderResponse(TRUE, 200, <<>>, Undefined, Undefined),
      ProviderResponse(FALSE, 404, <<"NOT_FOUND">>, Undefined, Undefined),
      ProviderResponse(FALSE, 403, <<"PERMISSION_DENIED">>, Undefined, Undefined),
      ProviderResponse(FALSE, 400, <<"API_KEY_INVALID">>, Undefined, Undefined),
      ProviderResponse(FALSE, 400, <<"INVALID_ARGUMENT">>, Undefined, Undefined),
      ProviderResponse(FALSE, 500, <<"INTERNAL">>, Undefined, Undefined) }

\* The hint chosen from the upstream status and error body.
Hint(status, body) ==
    IF status = 404 THEN <<"404 Not Found">>
    ELSE IF status = 403 THEN <<"403 Forbidden">>
    ELSE IF status = 400 /\ Includes(body, "API_KEY_INVALID")
         THEN <<"400 Bad Request / API_KEY_INVALID">>
    ELSE Undefined

\* Variant: an upstream error that has a hint is handled as an unreadable body.
ClassifyHintDriven(r) ==
    IF ~r.ok /\ Hint(r.status, r.body) = Undefined THEN "UpstreamError"
    ELSE IF ~Falsy(r.text) THEN "Reply"
    ELSE IF ~Falsy(r.blockReason) THEN "Blocked"
    ELSE "MalformedResponse"

\* Variant: a body without text is taken for a block, whether or not it
\* gives a reason.
ClassifyBlockDefault(r) ==
    IF ~r.ok THEN "UpstreamError"
    ELSE IF ~Falsy(r.text) THEN "Reply"
    ELSE "Blocked"

\* The branch the handler takes on a provider response.
Classify(r) ==
    IF ~r.ok THEN "UpstreamError"
    ELSE IF ~Falsy(r.text) THEN "Reply"
    ELSE IF ~Falsy(r.blockReason) THEN "Blocked"
    ELSE "MalformedResponse"

\* `Your prompt was blocked due to: ${blockReason}.`
BlockNotice(reason) == <<"Your prompt was blocked due to: ">> \o reason \o <<".">>

\* `Echo (dev): ${input} -- set GEMINI_API_KEY to use real Gemini.` (the source has a dash)
EchoReply(input) ==
    <<"Echo (dev): ">> \o input \o <<" -- set GEMINI_API_KEY to use real Gemini.">>

\* ------------------------------------------------------ calls and responses

\* A handler's position and locals.  The last three are history: what fetch
\* resolved to, and whether this call's $push, and its title update, modified
\* a document.
IdleCall ==
    [op |-> "none", pc |-> "idle", user |-> NoUser, sid |-> BadId, input |-> Undefined,
     reply |-> Undefined, ts |-> 0, tok |-> NoToken,
     fetched |-> <<>>, appended |-> FALSE, titled |-> FALSE]

DoneCall == [IdleCall EXCEPT !.pc = "done"]

\* res.status(status).json(...).  kind names the outcome, list holds the ids
\* of a listing, body the document sent.  History, for the properties: pre is
\* the session the request names as the store held it when the response was
\* decided, fault whether the store rejected an operation of the call, and
\* fetched, appended, titled are those of the call.
Response(c, op, userId, sid, input, status, kind) ==
    [call |-> c, op |-> op, user |-> userId, sid |-> sid, input |-> input,
     status |-> status, kind |-> kind, upstreamStatus |-> 0, hint |-> Undefined,
     reply |-> Undefined, body |-> <<>>, list |-> <<>>, token |-> NoToken,
     pre |-> FindById(db, sid), fault |-> FALSE,
     fetched |-> <<>>, appended |-> FALSE, titled |-> FALSE]

NoResponse == Response(0, "none", NoUser, BadId, Undefined, 0, "none")

\* authMiddleware answers 401 before the handler, and so before anything
\* reads the request's parameters or body.
Unauthenticated(c, op) == Response(c, op, NoUser, BadId, Undefined, 401, "Unauthenticated")

\* The statuses the handlers send.
StatusOf(kind) ==
    CASE kind = "ok" -> 200
      [] kind = "InvalidInput" -> 400
      [] kind = "Unauthenticated" -> 401
      [] kind = "Forbidden" -> 403
      [] kind = "NotFound" -> 404
      [] kind = "UpstreamError" -> 502
      [] kind = "MalformedResponse" -> 502
      [] OTHER -> 500

Init ==
    /\ db = << >>
    /\ nextId = 1
    /\ nextTok = 1
    /\ now = 1
    /\ apiKey \in BOOLEAN
    /\ calls = [c \in Calls |-> IdleCall]
    /\ started = 0
    /\ out = NoResponse
    /\ creator = << >>
    /\ landed = {}
    /\ retitled = {}
    /\ granted = <<>>
    /\ carried = {}

\* The server starts on a store that already holds a session, created for
\* u2, with one exchange and share token 1 from before the server was started.
InitShared ==
    /\ db = (1 :> SetShareToken(PushPair(NewSession(DefaultTitle, "u2", 1),
                                         Word, <<"r">>, 1, 0), 1))
    /\ nextId = 2
    /\ nextTok = 2
    /\ now = 2
    /\ apiKey \in BOOLEAN
    /\ calls = [c \in Calls |-> IdleCall]
    /\ started = 0
    /\ out = NoResponse
    /\ creator = (1 :> "u2")
    /\ landed = {}
    /\ retitled = {}
    /\ granted = <<>>
    /\ carried = {[sid |-> 1, token |-> 1]}

\* The server starts on a store that holds two sessions of u1: session 1,
\* created first and appended to last, and session 2.
InitListed ==
    /\ db = (1 :> PushPair(NewSession(DefaultTitle, "u1", 1), Word, <<"r">>, 3, 0))
             @@ (2 :> NewSession(DefaultTitle, "u1", 2))
    /\ nextId = 3
    /\ nextTok = 1
    /\ now = 4
    /\ apiKey \in BOOLEAN
    /\ calls = [c \in Calls |-> IdleCall]
    /\ started = 0
    /\ out = NoResponse
    /\ creator = (1 :> "u1") @@ (2 :> "u1")
    /\ landed = {[sid |-> 1, call |-> 0, input |-> Word, reply |-> <<"r">>]}
    /\ retitled = {}
    /\ granted = <<>>
    /\ carried = {}

\* The server starts on a store that holds one session, created for u1 and
\* not yet used.
InitFresh ==
    /\ db = (1 :> NewSession(DefaultTitle, "u1", 1))
    /\ nextId = 2
    /\ nextTok = 1
    /\ now = 2
    /\ apiKey \in BOOLEAN
    /\ calls = [c \in Calls |-> IdleCall]
    /\ started = 0
    /\ out = NoResponse
    /\ creator = (1 :> "u1")
    /\ landed = {}
    /\ retitled = {}
    /\ granted = <<>>
    /\ carried = {}

\* The call a newly arrived request becomes.
Arriving == started + 1

Arrive == started < MaxCalls /\ started' = started + 1

\* The handler of call c sends r and ends.
Send(c, r) ==
    /\ out' = r
    /\ calls' = [calls EXCEPT ![c] = DoneCall]

\* The handler of call c awaits its next operation at pc, holding locals l.
Await(c, l) ==
    /\ calls' = [calls EXCEPT ![c] = l]
    /\ UNCHANGED out

\* The ids a request can name: a malformed one, those handed out so far, and
\* a well-formed one no session has had.
SessionIds == BadId..nextId

\* The tokens a share link can carry: those drawn so far and one never drawn.
Tokens == 1..nextTok

\* -------------------------------------------------------- GET /sessions

ListSessions(cred, fault) ==
    LET c == Arriving
        userId == Verify(cred)
        R(kind) == Response(c, "list", userId, BadId, Undefined, StatusOf(kind), kind)
    IN  /\ Arrive
        /\ IF userId = NoUser THEN Send(c, Unauthenticated(c, "list"))
           ELSE IF fault THEN Send(c, [R("ServerError") EXCEPT !.fault = TRUE])
           ELSE Send(c, [R("ok") EXCEPT !.list = SortDesc(db, OwnedBy(db, userId))])
        /\ UNCHANGED <<db, nextId, nextTok, now, apiKey, creator, landed, retitled,
                       granted, carried>>

\* ------------------------------------------------------- POST /sessions

\* Variant: the route is registered without authMiddleware.
CreateSessionNoAuth(cred, hint, fault) ==
    LET c == Arriving
        userId == Verify(cred)
        R(kind) == Response(c, "create", userId, BadId, hint, StatusOf(kind), kind)
        doc == NewSession(CreateTitle(hint), userId, now)
    IN  /\ Arrive
        /\ IF fault
           THEN /\ Send(c, [R("ServerError") EXCEPT !.fault = TRUE])
                /\ UNCHANGED <<db, nextId, now, creator>>
           ELSE /\ db' = (nextId :> doc) @@ db
                /\ creator' = (nextId :> userId) @@ creator
                /\ nextId' = nextId + 1
                /\ now' = now + 1
                /\ Send(c, [R("ok") EXCEPT !.sid = nextId, !.body = <<doc>>])
        /\ UNCHANGED <<nextTok, apiKey, landed, retitled, granted, carried>>

CreateSession(cred, hint, fault) ==
    LET c == Arriving
        userId == Verify(cred)
        R(kind) == Response(c, "create", userId, BadId, hint, StatusOf(kind), kind)
        doc == NewSession(CreateTitle(hint), userId, now)
    IN  /\ Arrive
        /\ IF userId = NoUser
           THEN /\ Send(c, Unauthenticated(c, "create"))
                /\ UNCHANGED <<db, nextId, now, creator>>
           ELSE IF fault
           THEN /\ Send(c, [R("ServerError") EXCEPT !.fault = TRUE])
                /\ UNCHANGED <<db, nextId, now, creator>>
           ELSE /\ db' = (nextId :> doc) @@ db
                /\ creator' = (nextId :> userId) @@ creator
                /\ nextId' = nextId + 1
                /\ now' = now + 1
                /\ Send(c, [R("ok") EXCEPT !.sid = nextId, !.body = <<doc>>])
        /\ UNCHANGED <<nextTok, apiKey, landed, retitled,
                       granted, carried>>

\* --------------------------------------------- GET /sessions/:sessionId

\* findById, the null test and the ownership test of the handler; findById
\* rejects (CastError) on an id that is no ObjectId, and the catch answers 500.
GetGate(d, userId, sid, fault) ==
    IF fault \/ ~IsValidObjectId(sid) THEN "ServerError"
    ELSE IF FindById(d, sid) = <<>> THEN "NotFound"
    ELSE IF ~IsOwner(FindById(d, sid)[1], userId) THEN "Forbidden"
    ELSE "ok"

GetSession(cred, sid, fault) ==
    LET c == Arriving
        userId == Verify(cred)
        R(kind) == [Response(c, "get", userId, sid, Undefined, StatusOf(kind), kind)
                      EXCEPT !.fault = fault]
        gate == GetGate(db, userId, sid, fault)
    IN  /\ sid \in SessionIds
        /\ Arrive
        /\ IF userId = NoUser THEN Send(c, Unauthenticated(c, "get"))
           ELSE IF gate # "ok" THEN Send(c, R(gate))
           ELSE Send(c, [R("ok") EXCEPT !.body = FindById(db, sid)])
        /\ UNCHANGED <<db, nextId, nextTok, now, apiKey, creator, landed, retitled,
                       granted, carried>>

\* ------------------------------------------------- GET /share/:token

\* Variant: the route runs authMiddleware like the others.
GetByShareTokenAuthenticated(cred, token, fault) ==
    LET c == Arriving
        R(kind) == [Response(c, "shared", Verify(cred), BadId, Undefined,
                             StatusOf(kind), kind)
                      EXCEPT !.token = token, !.fault = fault]
        sid == FindIdByShareToken(db, token)
    IN  /\ token \in Tokens
        /\ Arrive
        /\ IF Verify(cred) = NoUser THEN Send(c, R("Unauthenticated"))
           ELSE IF fault THEN Send(c, R("ServerError"))
           ELSE IF sid = 0 THEN Send(c, R("NotFound"))
           ELSE Send(c, [R("ok") EXCEPT !.sid = sid, !.body = <<db[sid]>>,
                                        !.pre = <<db[sid]>>])
        /\ UNCHANGED <<db, nextId, nextTok, now, apiKey, creator, landed, retitled,
                       granted, carried>>

\* The route has no authMiddleware: the handler never reads the caller's
\* credential.  The response records, as history, whom it went to.
GetByShareToken(cred, token, fault) ==
    LET c == Arriving
        R(kind) == [Response(c, "shared", Verify(cred), BadId, Undefined,
                             StatusOf(kind), kind)
                      EXCEPT !.token = token, !.fault = fault]
        sid == FindIdByShareToken(db, token)
    IN  /\ token \in Tokens
        /\ Arrive
        /\ IF fault THEN Send(c, R("ServerError"))
           ELSE IF sid = 0 THEN Send(c, R("NotFound"))
           ELSE Send(c, [R("ok") EXCEPT !.sid = sid, !.body = <<db[sid]>>,
                                        !.pre = <<db[sid]>>])
        /\ UNCHANGED <<db, nextId, nextTok, now, apiKey, creator, landed, retitled,
                       granted, carried>>

\* ------------------------------------------ DELETE /sessions/:sessionId

DeleteGate(d, userId, sid, fault) ==
    IF fault \/ ~IsValidObjectId(sid) THEN "ServerError"
    ELSE IF FindById(d, sid) = <<>> THEN "NotFound"
    ELSE IF ~IsOwner(FindById(d, sid)[1], userId) THEN "Forbidden"
    ELSE "ok"

\* The request arrives: authMiddleware, then findById and the two tests.
DeleteLookup(cred, sid, fault) ==
    LET c == Arriving
        userId == Verify(cred)
        R(kind) == [Response(c, "delete", userId, sid, Undefined, StatusOf(kind), kind)
                      EXCEPT !.fault = fault]
        gate == DeleteGate(db, userId, sid, fault)
    IN  /\ sid \in SessionIds
        /\ Arrive
        /\ IF userId = NoUser
           THEN Send(c, Unauthenticated(c, "delete"))
           ELSE IF gate # "ok" THEN Send(c, R(gate))
           ELSE Await(c, [IdleCall EXCEPT !.op = "delete", !.pc = "delete",
                                          !.user = userId, !.sid = sid])
        /\ UNCHANGED <<db, nextId, nextTok, now, apiKey, creator, landed, retitled,
                       granted, carried>>

\* Variant: the delete is keyed by a parameter the route does not have, and
\* removes nothing.
DeleteApplyRemovesNothing(c, fault) ==
    LET l == calls[c]
        R(kind) == [Response(c, "delete", l.user, l.sid, Undefined, StatusOf(kind), kind)
                      EXCEPT !.fault = fault]
    IN  /\ l.pc = "delete"
        /\ IF fault
           THEN /\ Send(c, R("ServerError"))
                /\ UNCHANGED <<db, granted>>
           ELSE /\ UNCHANGED db
                /\ granted' = Append(granted, [op |-> "delete", sid |-> l.sid,
                                                call |-> c, token |-> NoToken])
                /\ Send(c, R("ok"))
        /\ UNCHANGED <<nextId, nextTok, now, apiKey, started, creator, landed, retitled,
                       carried>>

\* findByIdAndDelete lands; it resolves to null, without rejecting, when no
\* document has the id.
DeleteApply(c, fault) ==
    LET l == calls[c]
        R(kind) == [Response(c, "delete", l.user, l.sid, Undefined, StatusOf(kind), kind)
                      EXCEPT !.fault = fault]
    IN  /\ l.pc = "delete"
        /\ IF fault
           THEN /\ Send(c, R("ServerError"))
                /\ UNCHANGED <<db, granted>>
           ELSE /\ db' = [s \in DOMAIN db \ {l.sid} |-> db[s]]
                /\ granted' = Append(granted, [op |-> "delete", sid |-> l.sid,
                                                call |-> c, token |-> NoToken])
                /\ Send(c, R("ok"))
        /\ UNCHANGED <<nextId, nextTok, now, apiKey, started, creator, landed, retitled,
                       carried>>

\* ------------------------------------- POST /sessions/:sessionId/share

\* Variant: the handler does not test the owner.
ShareGateNoOwnerTest(d, userId, sid, fault) ==
    IF fault \/ ~IsValidObjectId(sid) THEN "ServerError"
    ELSE IF FindById(d, sid) = <<>> THEN "NotFound"
    ELSE "ok"

ShareGate(d, userId, sid, fault) ==
    IF fault \/ ~IsValidObjectId(sid) THEN "ServerError"
    ELSE IF FindById(d, sid) = <<>> THEN "NotFound"
    ELSE IF ~IsOwner(FindById(d, sid)[1], userId) THEN "Forbidden"
    ELSE "ok"

\* The request arrives: authMiddleware, findById and the two tests, then
\* crypto.randomBytes(16) draws the token.
ShareLookup(cred, sid, fault) ==
    LET c == Arriving
        userId == Verify(cred)
        R(kind) == [Response(c, "share", userId, sid, Undefined, StatusOf(kind), kind)
                      EXCEPT !.fault = fault]
        gate == ShareGate(db, userId, sid, fault)
    IN  /\ sid \in SessionIds
        /\ Arrive
        /\ IF userId = NoUser
           THEN /\ Send(c, Unauthenticated(c, "share"))
                /\ UNCHANGED nextTok
           ELSE IF gate # "ok"
           THEN /\ Send(c, R(gate))
                /\ UNCHANGED nextTok
           ELSE /\ Await(c, [IdleCall EXCEPT !.op = "share", !.pc = "share",
                                             !.user = userId, !.sid = sid,
                                             !.tok = nextTok])
                /\ nextTok' = nextTok + 1
        /\ UNCHANGED <<db, nextId, now, apiKey, creator, landed, retitled,
                       granted, carried>>

\* Variant: the update is keyed by the owner instead of the id.
ShareApplyAllOfOwner(c, fault) ==
    LET l == calls[c]
        R(kind) == [Response(c, "share", l.user, l.sid, Undefined, StatusOf(kind), kind)
                      EXCEPT !.fault = fault]
        hit == OwnedBy(db, l.user)
    IN  /\ l.pc = "share"
        /\ IF fault
           THEN /\ Send(c, R("ServerError"))
                /\ UNCHANGED <<db, granted, carried>>
           ELSE /\ db' = [s \in DOMAIN db |->
                            IF s \in hit THEN SetShareToken(db[s], l.tok) ELSE db[s]]
                /\ carried' = carried \cup {[sid |-> s, token |-> l.tok] : s \in hit}
                /\ granted' = Append(granted, [op |-> "share", sid |-> l.sid,
                                                call |-> c, token |-> l.tok])
                /\ Send(c, [R("ok") EXCEPT !.token = l.tok])
        /\ UNCHANGED <<nextId, nextTok, now, apiKey, started, creator, landed, retitled>>

\* findByIdAndUpdate(sessionId, { shareToken }) lands; null, without
\* rejecting, when no document has the id.
ShareApply(c, fault) ==
    LET l == calls[c]
        R(kind) == [Response(c, "share", l.user, l.sid, Undefined, StatusOf(kind), kind)
                      EXCEPT !.fault = fault]
    IN  /\ l.pc = "share"
        /\ IF fault
           THEN /\ Send(c, R("ServerError"))
                /\ UNCHANGED <<db, granted, carried>>
           ELSE /\ db' = IF l.sid \in DOMAIN db
                         THEN [db EXCEPT ![l.sid] = SetShareToken(@, l.tok)]
                         ELSE db
                /\ carried' = IF l.sid \in DOMAIN db
                              THEN carried \cup {[sid |-> l.sid, token |-> l.tok]}
                              ELSE carried
                /\ granted' = Append(granted, [op |-> "share", sid |-> l.sid,
                                                call |-> c, token |-> l.tok])
                /\ Send(c, [R("ok") EXCEPT !.token = l.tok])
        /\ UNCHANGED <<nextId, nextTok, now, apiKey, started, creator, landed, retitled>>

\* ---------------------------------- POST /sessions/:sessionId/messages

\* The tests the handler makes before it turns to the provider, in its order:
\* the input, the id's format, findById (whose rejection the first catch
\* answers with 500), null, the owner.  (Its test of a missing :sessionId
\* cannot fire: the route does not match without one.)
\* Variant: the input is tested after the session was looked up.
RelayGateInputLast(d, userId, sid, input, fault) ==
    IF ~IsValidObjectId(sid) THEN "InvalidInput"
    ELSE IF fault THEN "ServerError"
    ELSE IF FindById(d, sid) = <<>> THEN "NotFound"
    ELSE IF ~IsOwner(FindById(d, sid)[1], userId) THEN "Forbidden"
    ELSE IF Falsy(input) THEN "InvalidInput"
    ELSE "ok"

RelayGate(d, userId, sid, input, fault) ==
    IF Falsy(input) THEN "InvalidInput"
    ELSE IF ~IsValidObjectId(sid) THEN "InvalidInput"
    ELSE IF fault THEN "ServerError"
    ELSE IF FindById(d, sid) = <<>> THEN "NotFound"
    ELSE IF ~IsOwner(FindById(d, sid)[1], userId) THEN "Forbidden"
    ELSE "ok"

\* The response of a relay call from its locals.
RelayResponse(c, l, kind) ==
    [Response(c, "relay", l.user, l.sid, l.input, StatusOf(kind), kind)
        EXCEPT !.fetched = l.fetched, !.appended = l.appended, !.titled = l.titled]

\* Variant: the owner is compared only after the provider has answered, so a
\* request of another user reaches the fetch.
RelayLookupFetchBeforeOwner(cred, sid, input, fault) ==
    LET c == Arriving
        userId == Verify(cred)
        l == [IdleCall EXCEPT !.op = "relay", !.pc = "fetch", !.user = userId,
                              !.sid = sid, !.input = input]
        gate == RelayGate(db, userId, sid, input, fault)
        R(kind) == RelayResponse(c, l, kind)
    IN  /\ sid \in SessionIds
        /\ Arrive
        /\ IF userId = NoUser THEN Send(c, Unauthenticated(c, "relay"))
           ELSE IF gate \notin {"ok", "Forbidden"}
           THEN Send(c, [R(gate) EXCEPT !.fault = (gate = "ServerError")])
           ELSE IF ~apiKey THEN Send(c, [R("ok") EXCEPT !.reply = EchoReply(input)])
           ELSE Await(c, l)
        /\ UNCHANGED <<db, nextId, nextTok, now, apiKey, creator, landed, retitled,
                       granted, carried>>

\* The request arrives: authMiddleware, the gate, then either the development
\* echo (no GEMINI_API_KEY) or the fetch.
RelayLookup(cred, sid, input, fault) ==
    LET c == Arriving
        userId == Verify(cred)
        l == [IdleCall EXCEPT !.op = "relay", !.pc = "fetch", !.user = userId,
                              !.sid = sid, !.input = input]
        gate == RelayGate(db, userId, sid, input, fault)
        R(kind) == RelayResponse(c, l, kind)
    IN  /\ sid \in SessionIds
        /\ Arrive
        /\ IF userId = NoUser THEN Send(c, Unauthenticated(c, "relay"))
           ELSE IF gate # "ok"
           THEN Send(c, [R(gate) EXCEPT !.fault = (gate = "ServerError")])
           ELSE IF ~apiKey THEN Send(c, [R("ok") EXCEPT !.reply = EchoReply(input)])
           ELSE Await(c, l)
        /\ UNCHANGED <<db, nextId, nextTok, now, apiKey, creator, landed, retitled,
                       granted, carried>>

\* fetch rejects (the transport failed): the catch answers 500.
RelayFetchRejects(c) ==
    LET l == calls[c]
    IN  /\ l.pc = "fetch"
        /\ Send(c, RelayResponse(c, l, "ServerError"))
        /\ UNCHANGED <<db, nextId, nextTok, now, apiKey, started, creator, landed,
                       retitled, granted, carried>>

\* fetch resolves to r.  On a reply or a block notice the handler reads the
\* clock and issues the $push.
RelayFetch(c, r) ==
    LET l0 == calls[c]
        l == [l0 EXCEPT !.fetched = <<r>>]
        branch == Classify(r)
    IN  /\ l0.pc = "fetch"
        /\ CASE branch = "UpstreamError" ->
                  /\ Send(c, [RelayResponse(c, l, "UpstreamError")
                                EXCEPT !.upstreamStatus = r.status,
                                       !.hint = Hint(r.status, r.body)])
                  /\ UNCHANGED now
             [] branch = "Reply" ->
                  /\ Await(c, [l EXCEPT !.pc = "append", !.reply = r.text, !.ts = now])
                  /\ now' = now + 1
             [] branch = "Blocked" ->
                  /\ Await(c, [l EXCEPT !.pc = "appendBlocked",
                                        !.reply = BlockNotice(r.blockReason),
                                        !.ts = now])
                  /\ now' = now + 1
             [] OTHER ->
                  /\ Send(c, RelayResponse(c, l, "MalformedResponse"))
                  /\ UNCHANGED now
        /\ UNCHANGED <<db, nextId, nextTok, apiKey, started, creator, landed, retitled,
                       granted, carried>>

\* Variant: a rejected $push is logged and the handler answers all the same.
RelayAppendSwallowsFault(c, fault) ==
    LET l == calls[c]
    IN  /\ l.pc \in {"append", "appendBlocked"}
        /\ Send(c, [RelayResponse(c, l, "ok") EXCEPT !.reply = l.reply, !.fault = fault])
        /\ UNCHANGED <<db, landed>>
        /\ UNCHANGED <<nextId, nextTok, now, apiKey, started, creator, retitled,
                       granted, carried>>

\* Variant: the update is issued with { upsert: true } and inserts a document
\* when none has the id.
RelayAppendUpsert(c, fault) ==
    LET l == calls[c]
        hit == l.sid \in DOMAIN db
        l2 == [l EXCEPT !.appended = hit]
        blank == NewSession(DefaultTitle, l.user, l.ts)
    IN  /\ l.pc \in {"append", "appendBlocked"}
        /\ IF fault
           THEN /\ Send(c, [RelayResponse(c, l, "ServerError") EXCEPT !.fault = TRUE])
                /\ UNCHANGED <<db, landed>>
           ELSE /\ db' = IF hit
                         THEN [db EXCEPT ![l.sid] = PushPair(@, l.input, l.reply, l.ts, c)]
                         ELSE (l.sid :> PushPair(blank, l.input, l.reply, l.ts, c)) @@ db
                /\ landed' = landed \cup {[sid |-> l.sid, call |-> c,
                                            input |-> l.input, reply |-> l.reply]}
                /\ IF l.pc = "append"
                   THEN Await(c, [l2 EXCEPT !.pc = "reread"])
                   ELSE Send(c, [RelayResponse(c, l2, "ok") EXCEPT !.reply = l.reply])
        /\ UNCHANGED <<nextId, nextTok, now, apiKey, started, creator, retitled,
                       granted, carried>>

\* The $push lands (null, without rejecting, when no document has the id).
\* The Reply branch goes on to re-read the session; the Blocked branch answers.
RelayAppend(c, fault) ==
    LET l == calls[c]
        hit == l.sid \in DOMAIN db
        l2 == [l EXCEPT !.appended = hit]
    IN  /\ l.pc \in {"append", "appendBlocked"}
        /\ IF fault
           THEN /\ Send(c, [RelayResponse(c, l, "ServerError") EXCEPT !.fault = TRUE])
                /\ UNCHANGED <<db, landed>>
           ELSE /\ db' = IF hit
                         THEN [db EXCEPT ![l.sid] = PushPair(@, l.input, l.reply, l.ts, c)]
                         ELSE db
                /\ landed' = IF hit
                             THEN landed \cup {[sid |-> l.sid, call |-> c,
                                                input |-> l.input, reply |-> l.reply]}
                             ELSE landed
                /\ IF l.pc = "append"
                   THEN Await(c, [l2 EXCEPT !.pc = "reread"])
                   ELSE Send(c, [RelayResponse(c, l2, "ok") EXCEPT !.reply = l.reply])
        /\ UNCHANGED <<nextId, nextTok, now, apiKey, started, creator, retitled,
                       granted, carried>>

\* Variant: session.messages.length >= 2
IsFirstExchangeOrLater(doc) == Len(doc.messages) >= 2

\* session.messages.length === 2
IsFirstExchange(doc) == Len(doc.messages) = 2

\* The re-read findById lands.  On null, session.messages throws a TypeError
\* and the catch answers 500.
RelayReread(c, fault) ==
    LET l == calls[c]
        seen == FindById(db, l.sid)
    IN  /\ l.pc = "reread"
        /\ IF fault
           THEN Send(c, [RelayResponse(c, l, "ServerError") EXCEPT !.fault = TRUE])
           ELSE IF seen = <<>> THEN Send(c, RelayResponse(c, l, "ServerError"))
           ELSE IF IsFirstExchange(seen[1]) THEN Await(c, [l EXCEPT !.pc = "title"])
           ELSE Send(c, [RelayResponse(c, l, "ok") EXCEPT !.reply = l.reply])
        /\ UNCHANGED <<db, nextId, nextTok, now, apiKey, started, creator, landed,
                       retitled, granted, carried>>

\* Variant: the title is cut from the reply.
RelayTitleFromReply(c, fault) ==
    LET l == calls[c]
        hit == l.sid \in DOMAIN db
        l2 == [l EXCEPT !.titled = hit]
    IN  /\ l.pc = "title"
        /\ IF fault
           THEN /\ Send(c, [RelayResponse(c, l, "ServerError") EXCEPT !.fault = TRUE])
                /\ UNCHANGED <<db, retitled>>
           ELSE /\ db' = IF hit
                         THEN [db EXCEPT ![l.sid] = SetTitle(@, DeriveTitle(l.reply))]
                         ELSE db
                /\ retitled' = IF hit
                               THEN retitled \cup {[sid |-> l.sid, call |-> c]}
                               ELSE retitled
                /\ Send(c, [RelayResponse(c, l2, "ok") EXCEPT !.reply = l.reply])
        /\ UNCHANGED <<nextId, nextTok, now, apiKey, started, creator, landed,
                       granted, carried>>

\* The title update lands (null, without rejecting, when no document has the id).
RelayTitle(c, fault) ==
    LET l == calls[c]
        hit == l.sid \in DOMAIN db
        l2 == [l EXCEPT !.titled = hit]
    IN  /\ l.pc = "title"
        /\ IF fault
           THEN /\ Send(c, [RelayResponse(c, l, "ServerError") EXCEPT !.fault = TRUE])
                /\ UNCHANGED <<db, retitled>>
           ELSE /\ db' = IF hit
                         THEN [db EXCEPT ![l.sid] = SetTitle(@, DeriveTitle(l.input))]
                         ELSE db
                /\ retitled' = IF hit
                               THEN retitled \cup {[sid |-> l.sid, call |-> c]}
                               ELSE retitled
                /\ Send(c, [RelayResponse(c, l2, "ok") EXCEPT !.reply = l.reply])
        /\ UNCHANGED <<nextId, nextTok, now, apiKey, started, creator, landed,
                       granted, carried>>

\* ------------------------------------------------------------ the system

\* Every id and token a behaviour can hand out.
AllIds == BadId..MaxCalls
AllTokens == 1..MaxCalls

Next ==
    \/ \E cred \in Creds, fault \in BOOLEAN : ListSessions(cred, fault)
    \/ \E cred \in Creds, hint \in TitleHints, fault \in BOOLEAN :
          CreateSession(cred, hint, fault)
    \/ \E cred \in Creds, sid \in AllIds, fault \in BOOLEAN :
          GetSession(cred, sid, fault)
    \/ \E cred \in Creds, token \in AllTokens, fault \in BOOLEAN :
          GetByShareToken(cred, token, fault)
    \/ \E cred \in Creds, sid \in AllIds, fault \in BOOLEAN :
          DeleteLookup(cred, sid, fault)
    \/ \E c \in Calls, fault \in BOOLEAN : DeleteApply(c, fault)
    \/ \E cred \in Creds, sid \in AllIds, fault \in BOOLEAN :
          ShareLookup(cred, sid, fault)
    \/ \E c \in Calls, fault \in BOOLEAN : ShareApply(c, fault)
    \/ \E cred \in Creds, sid \in AllIds, input \in Utterances, fault \in BOOLEAN :
          RelayLookup(cred, sid, input, fault)
    \/ \E c \in Calls : RelayFetchRejects(c)
    \/ \E c \in Calls, r \in ProviderResponses : RelayFetch(c, r)
    \/ \E c \in Calls, fault \in BOOLEAN : RelayAppend(c, fault)
    \/ \E c \in Calls, fault \in BOOLEAN : RelayReread(c, fault)
    \/ \E c \in Calls, fault \in BOOLEAN : RelayTitle(c, fault)

Spec == Init /\ [][Next]_vars

\* The same server, its relay requests carrying BlankUtterances.
NextBlank ==
    \/ \E cred \in Creds, fault \in BOOLEAN : ListSessions(cred, fault)
    \/ \E cred \in Creds, hint \in TitleHints, fault \in BOOLEAN :
          CreateSession(cred, hint, fault)
    \/ \E cred \in Creds, sid \in AllIds, fault \in BOOLEAN :
          GetSession(cred, sid, fault)
    \/ \E cred \in Creds, token \in AllTokens, fault \in BOOLEAN :
          GetByShareToken(cred, token, fault)
    \/ \E cred \in Creds, sid \in AllIds, fault \in BOOLEAN :
          DeleteLookup(cred, sid, fault)
    \/ \E c \in Calls, fault \in BOOLEAN : DeleteApply(c, fault)
    \/ \E cred \in Creds, sid \in AllIds, fault \in BOOLEAN :
          ShareLookup(cred, sid, fault)
    \/ \E c \in Calls, fault \in BOOLEAN : ShareApply(c, fault)
    \/ \E cred \in Creds, sid \in AllIds, input \in BlankUtterances, fault \in BOOLEAN :
          RelayLookup(cred, sid, input, fault)
    \/ \E c \in Calls : RelayFetchRejects(c)
    \/ \E c \in Calls, r \in ProviderResponses : RelayFetch(c, r)
    \/ \E c \in Calls, fault \in BOOLEAN : RelayAppend(c, fault)
    \/ \E c \in Calls, fault \in BOOLEAN : RelayReread(c, fault)
    \/ \E c \in Calls, fault \in BOOLEAN : RelayTitle(c, fault)

SpecBlank == Init /\ [][NextBlank]_vars

\* The session and share operations (no relay request arrives), on a store
\* that already holds a shared session.
NextShare ==
    \/ \E cred \in Creds, fault \in BOOLEAN : ListSessions(cred, fault)
    \/ \E cred \in Creds, hint \in TitleHints, fault \in BOOLEAN :
          CreateSession(cred, hint, fault)
    \/ \E cred \in Creds, sid \in AllIds, fault \in BOOLEAN :
          GetSession(cred, sid, fault)
    \/ \E cred \in Creds, token \in AllTokens, fault \in BOOLEAN :
          GetByShareToken(cred, token, fault)
    \/ \E cred \in Creds, sid \in AllIds, fault \in BOOLEAN :
          DeleteLookup(cred, sid, fault)
    \/ \E c \in Calls, fault \in BOOLEAN : DeleteApply(c, fault)
    \/ \E cred \in Creds, sid \in AllIds, fault \in BOOLEAN :
          ShareLookup(cred, sid, fault)
    \/ \E c \in Calls, fault \in BOOLEAN : ShareApply(c, fault)

SpecShare == InitShared /\ [][NextShare]_vars

\* The session operations (list, create, get, delete) with callers that name
\* their sessions, on a store that already holds two sessions.
NextListed ==
    \/ \E cred \in Creds, fault \in BOOLEAN : ListSessions(cred, fault)
    \/ \E cred \in Creds, hint \in GivenTitleHints, fault \in BOOLEAN :
          CreateSession(cred, hint, fault)
    \/ \E cred \in Creds, sid \in AllIds, fault \in BOOLEAN :
          GetSession(cred, sid, fault)
    \/ \E cred \in Creds, sid \in AllIds, fault \in BOOLEAN :
          DeleteLookup(cred, sid, fault)
    \/ \E c \in Calls, fault \in BOOLEAN : DeleteApply(c, fault)

SpecListed == InitListed /\ [][NextListed]_vars

\* No handler is in flight.
Quiet == \A c \in Calls : calls[c].pc \in {"idle", "done"}

\* The relay route alone, its requests carrying LongUtterances and each sent
\* after the one before was answered.
NextRelay ==
    \/ \E cred \in Creds, sid \in AllIds, input \in LongUtterances, fault \in BOOLEAN :
          Quiet /\ RelayLookup(cred, sid, input, fault)
    \/ \E c \in Calls : RelayFetchRejects(c)
    \/ \E c \in Calls, r \in ProviderResponses : RelayFetch(c, r)
    \/ \E c \in Calls, fault \in BOOLEAN : RelayAppend(c, fault)
    \/ \E c \in Calls, fault \in BOOLEAN : RelayReread(c, fault)
    \/ \E c \in Calls, fault \in BOOLEAN : RelayTitle(c, fault)

SpecRelay == InitFresh /\ [][NextRelay]_vars

\* ------------------------------------------------------------- properties

\* The $push updates that landed on session s.
LandedOn(s) == {e \in landed : e.sid = s}

\* p is a prefix of q.
IsPrefix(p, q) == Len(p) <= Len(q) /\ SubSeq(q, 1, Len(p)) = p

\* C1: every existing session's owner is the userId it was created for,
\* whatever calls have run or are in flight.
C1_OwnerNeverChanges ==
    \A s \in DOMAIN db : db[s].owner = creator[s]

\* C1 witness: a session that was appended to, retitled and given a share
\* token still has its creator as owner.
C1_Witness ==
    \E s \in DOMAIN db :
        /\ Len(db[s].messages) > 0
        /\ db[s].shareToken # NoToken
        /\ db[s].owner = creator[s]

\* C2: every existing session's messages have even length, and every step
\* leaves the messages of a session that exists before and after it as a
\* prefix of what they become.
C2_PairsOnlyGrowOnly ==
    /\ [](\A s \in DOMAIN db : Len(db[s].messages) % 2 = 0)
    /\ [][\A s \in (DOMAIN db) \cap (DOMAIN db') :
              IsPrefix(db[s].messages, db'[s].messages)]_vars

\* C2 witness: a session that grew twice.
C2_Witness ==
    \E s \in DOMAIN db : Len(db[s].messages) = 4

\* C3: an existing session's messages are exactly the pairs whose $push
\* landed on it: one user entry directly followed by the assistant entry of
\* the same call, for each such call, and nothing else; and a call that
\* answered with the provider's reply or block notice is among them.
C3_OnePairPerCall ==
    \A s \in DOMAIN db :
        LET m == db[s].messages
        IN  /\ Len(m) = 2 * Cardinality(LandedOn(s))
            /\ \A e \in LandedOn(s) :
                  Cardinality({i \in 1..Len(m) :
                                  /\ i % 2 = 1
                                  /\ i < Len(m)
                                  /\ m[i] = Message("user", e.input, e.call)
                                  /\ m[i + 1] = Message("assistant", e.reply, e.call)})
                    = 1
            /\ \A e1, e2 \in LandedOn(s) : e1.call = e2.call => e1 = e2
            /\ (/\ out.op = "relay" /\ out.kind = "ok" /\ out.fetched # <<>>
                /\ out.sid = s)
                  => \E e \in LandedOn(s) :
                        e.call = out.call /\ e.input = out.input /\ e.reply = out.reply

\* C3 witness: two relay calls on one session are both past their $push at
\* the same time, with different outcomes (a reply and a block notice are
\* told apart by the position: only the Reply branch re-reads).
C3_Witness ==
    \E c1, c2 \in Calls :
        /\ c1 # c2
        /\ calls[c1].pc = "reread" /\ calls[c2].pc = "reread"
        /\ calls[c1].sid = calls[c2].sid
        /\ calls[c1].appended /\ calls[c2].appended
        /\ calls[c1].sid \in DOMAIN db
        /\ Len(db[calls[c1].sid].messages) = 4

\* r answers a session operation that an authenticated user other than the
\* owner invoked on a session the store held.
NonOwnerTarget(r) ==
    /\ r.op \in {"get", "delete", "share", "relay"}
    /\ r.user \in Users
    /\ r.pre # <<>>
    /\ r.pre[1].owner # r.user

\* How such a call is refused: the relay handler tests its input before it
\* looks the session up, and a lookup the store rejects ends in the catch.
Refusal(r) ==
    IF r.op = "relay" /\ Falsy(r.input) THEN "InvalidInput"
    ELSE IF r.fault THEN "ServerError"
    ELSE "Forbidden"

\* C4 (as stated): a get, delete, share or relay call by an authenticated
\* user who is not the owner of the existing session it names is answered
\* Forbidden (the store working).
C4_NonOwnerGetsForbidden ==
    (NonOwnerTarget(out) /\ ~out.fault) => out.kind = "Forbidden"

\* C4 (amended): such a call is refused in the step it arrives in, which
\* changes no session, and no handler is ever in flight on a session for a
\* user who is not its owner; the refusal is Forbidden, except InvalidInput
\* for a relay call without an utterance and a server error when the store
\* rejects the lookup.
C4_NonOwnerIsRefused ==
    /\ [](\A c \in Calls :
             calls[c].pc \notin {"idle", "done"}
                => /\ calls[c].sid \in DOMAIN creator
                   /\ calls[c].user = creator[calls[c].sid])
    /\ [][(started' = started + 1 /\ out'.call = started' /\ NonOwnerTarget(out'))
              => (db' = db /\ out'.kind = Refusal(out'))]_vars

\* C4 witness: a user who is not the owner is refused a relay call on a
\* session that carries a share token.
C4_Witness ==
    /\ NonOwnerTarget(out)
    /\ out.op = "relay"
    /\ out.kind = "Forbidden"
    /\ out.pre[1].shareToken # NoToken

\* C5 (as stated): a getSession by an authenticated caller, the store
\* working, is answered NotFound when no session has the id, Forbidden
\* exactly when the session exists and is owned by someone else, and with the
\* session otherwise.
C5_GetSessionOutcome ==
    (out.op = "get" /\ out.user \in Users /\ ~out.fault)
       => /\ out.pre = <<>> => out.kind = "NotFound"
          /\ out.kind = "Forbidden" <=> (out.pre # <<>> /\ out.pre[1].owner # out.user)
          /\ (out.pre # <<>> /\ out.pre[1].owner = out.user)
                => (out.kind = "ok" /\ out.body = out.pre)

\* A relay handler is in flight on session s.
RelayInFlightOn(s) ==
    \E c \in Calls : calls[c].op = "relay" /\ calls[c].sid = s
                     /\ calls[c].pc \notin {"idle", "done"}

\* C6 (as stated): once a relay call has answered with a stored exchange and
\* no relay call is in flight on the session, the session's title has been
\* derived exactly once, by the call that appended its first pair.
C6_TitleDerivedExactlyOnce ==
    (/\ out.op = "relay" /\ out.kind = "ok" /\ out.appended
     /\ out.sid \in DOMAIN db
     /\ ~RelayInFlightOn(out.sid))
       => /\ Cardinality({e \in retitled : e.sid = out.sid}) = 1
          /\ \A e \in retitled :
                e.sid = out.sid => e.call = db[out.sid].messages[1].call

\* C7 (as stated): a relay call that answers with the reply or block notice
\* of the exchange that is the session's first has set the title to the
\* title derived from its utterance.
C7_FirstExchangeSetsTitle ==
    (/\ out.op = "relay" /\ out.kind = "ok" /\ out.appended
     /\ out.sid \in DOMAIN db
     /\ db[out.sid].messages[1].call = out.call)
       => (out.titled /\ db[out.sid].title = DeriveTitle(out.input))

\* The statuses and bodies for which the handler has a hint.
HintApplies(r) ==
    r.status \in {403, 404} \/ (r.status = 400 /\ Includes(r.body, "API_KEY_INVALID"))

\* C8: a relay call whose fetch resolved to a non-success status answers 502
\* with the upstream status, with a hint exactly when one applies, and has
\* written nothing; no such call goes on to the store.
C8_UpstreamErrorAppendsNothing ==
    /\ (out.op = "relay" /\ out.fetched # <<>> /\ ~out.fetched[1].ok)
          => /\ out.kind = "UpstreamError"
             /\ out.status = 502
             /\ out.upstreamStatus = out.fetched[1].status
             /\ (out.hint # Undefined) <=> HintApplies(out.fetched[1])
             /\ out.reply = Undefined
             /\ ~out.appended /\ ~out.titled
    /\ \A c \in Calls : calls[c].fetched # <<>> => calls[c].fetched[1].ok

\* C8 witness: an upstream error that has a hint, on a session that already
\* holds an exchange.
C8_Witness ==
    /\ out.kind = "UpstreamError"
    /\ out.hint # Undefined
    /\ out.pre # <<>>
    /\ Len(out.pre[1].messages) = 2

\* The provider answered with success but neither a text nor a block reason.
IsMalformed(r) == r.ok /\ Falsy(r.text) /\ Falsy(r.blockReason)

\* C9: a relay call whose fetch resolved to such a response answers with an
\* error and no reply, and has written nothing; no such call goes on to the
\* store.
C9_MalformedAppendsNothing ==
    /\ (out.op = "relay" /\ out.fetched # <<>> /\ IsMalformed(out.fetched[1]))
          => /\ out.kind = "MalformedResponse"
             /\ out.status >= 400
             /\ out.reply = Undefined
             /\ ~out.appended /\ ~out.titled
    /\ \A c \in Calls : calls[c].fetched # <<>> => ~IsMalformed(calls[c].fetched[1])

\* C9 witness: a malformed response (an empty text) on an existing session.
C9_Witness ==
    /\ out.kind = "MalformedResponse"
    /\ out.fetched[1].text = Empty
    /\ out.sid \in DOMAIN db
    /\ db[out.sid].messages = <<>>

\* C10 (as stated): a relay call that answered with a failure has left no
\* entry in the session's messages.
C10_FailedRelayAppendsNothing ==
    (out.op = "relay" /\ out.status >= 400 /\ out.sid \in DOMAIN db)
       => \A i \in 1..Len(db[out.sid].messages) :
             db[out.sid].messages[i].call # out.call

\* The provider declined to answer and disclosed why.
IsBlocked(r) == r.ok /\ Falsy(r.text) /\ ~Falsy(r.blockReason)

\* C11 (as stated): a relay call whose fetch resolved to a disclosed block
\* reason, the store rejecting nothing, answers with success and the block
\* notice naming the reason, and its $push has appended the pair of the
\* utterance and that notice to the session.
C11_BlockedIsStoredTurn ==
    (out.op = "relay" /\ out.fetched # <<>> /\ IsBlocked(out.fetched[1]) /\ ~out.fault)
       => /\ out.kind = "ok"
          /\ out.reply = BlockNotice(out.fetched[1].blockReason)
          /\ out.appended
          /\ [sid |-> out.sid, call |-> out.call, input |-> out.input,
              reply |-> out.reply] \in landed

\* C12 (as stated): with no GEMINI_API_KEY, a relay call by the owner with a
\* non-empty utterance on a session without messages, the store rejecting
\* nothing, answers with the echo reply for the utterance without a fetch,
\* and the session then holds exactly 2 messages and the title derived from
\* the utterance.
C12_EchoStoresExchange ==
    (/\ ~apiKey
     /\ out.op = "relay" /\ ~Falsy(out.input) /\ ~out.fault
     /\ out.pre # <<>> /\ out.pre[1].owner = out.user
     /\ out.pre[1].messages = <<>>)
       => /\ out.kind = "ok"
          /\ out.reply = EchoReply(out.input)
          /\ out.fetched = <<>>
          /\ out.sid \in DOMAIN db
          /\ Len(db[out.sid].messages) = 2
          /\ db[out.sid].title = DeriveTitle(out.input)

\* C13: a relay call of an authenticated caller whose utterance is missing
\* or the empty string is answered InvalidInput (400) whatever session it
\* names and whether or not the store would have rejected the lookup; it
\* reaches neither the fetch nor the store, the step that answers it changes
\* no session, and no relay handler is ever in flight with such an utterance.
C13_EmptyInputIsInvalid ==
    /\ []((out.op = "relay" /\ out.user \in Users /\ Falsy(out.input))
             => /\ out.kind = "InvalidInput"
                /\ out.status = 400
                /\ out.fetched = <<>>
                /\ ~out.fault /\ ~out.appended /\ ~out.titled)
    /\ [](\A c \in Calls : calls[c].op = "relay" => ~Falsy(calls[c].input))
    /\ [][(/\ started' = started + 1 /\ out'.call = started'
           /\ out'.op = "relay" /\ out'.user \in Users /\ Falsy(out'.input))
              => db' = db]_vars

\* C13 witness: the empty string is refused on a session of the caller that
\* holds an exchange, and the session still holds just that.
C13_Witness ==
    /\ out.op = "relay" /\ out.kind = "InvalidInput"
    /\ out.input = Empty
    /\ out.pre # <<>> /\ out.pre[1].owner = out.user
    /\ Len(out.pre[1].messages) = 2
    /\ out.sid \in DOMAIN db
    /\ db[out.sid] = out.pre[1]

\* input.trim() is empty although input is not.
IsBlank(input) ==
    /\ input # Undefined
    /\ input # Empty
    /\ \A i \in 1..Len(input) : input[i] \in {" ", "\t", "\n"}

\* C14 (as stated): a relay call of an authenticated caller whose utterance
\* is whitespace only is answered InvalidInput, without a fetch and with
\* nothing appended; no relay handler is in flight with such an utterance.
C14_BlankInputIsInvalid ==
    /\ (out.op = "relay" /\ out.user \in Users /\ IsBlank(out.input))
          => /\ out.kind = "InvalidInput"
             /\ out.fetched = <<>>
             /\ ~out.appended
    /\ \A c \in Calls : calls[c].op = "relay" => ~IsBlank(calls[c].input)
    /\ \A e \in landed : ~IsBlank(e.input)

\* C15: the step in which the store rejects the $push of a relay call ends
\* the call with a server error that carries no reply, although the provider
\* had produced one, and writes nothing; and no relay call whose store
\* operation was rejected answers with a reply.
C15_AppendFaultReturnsNoReply ==
    /\ []((out.op = "relay" /\ out.fault)
             => (out.kind = "ServerError" /\ out.status = 500 /\ out.reply = Undefined))
    /\ [][\A c \in Calls :
             (/\ calls[c].pc \in {"append", "appendBlocked"}
              /\ out'.call = c /\ out'.fault)
                => /\ ~Falsy(calls[c].reply)
                   /\ out'.kind = "ServerError"
                   /\ out'.reply = Undefined
                   /\ calls'[c].pc = "done"
                   /\ db' = db /\ landed' = landed]_vars

\* C15 witness: the provider answered with a text, the store rejected the
\* $push, and the session, which exists, holds nothing of the exchange.
C15_Witness ==
    /\ out.op = "relay" /\ out.fault
    /\ out.fetched # <<>> /\ ~Falsy(out.fetched[1].text)
    /\ ~out.appended
    /\ out.sid \in DOMAIN db
    /\ db[out.sid].messages = <<>>
    /\ out.reply = Undefined

\* The share calls on session s that were answered with a token, in the
\* order of the answers.
ShareGrants(s) == SelectSeq(granted, LAMBDA e : e.op = "share" /\ e.sid = s)

\* C16: no two share calls were answered with the same token; and of the
\* tokens the share calls on an existing session were answered with, the one
\* answered last resolves to that session and every earlier one resolves to
\* no session (getByShareToken answers NotFound exactly then).
C16_LatestTokenOnly ==
    /\ \A i, j \in 1..Len(granted) :
          (i # j /\ granted[i].op = "share" /\ granted[j].op = "share")
             => granted[i].token # granted[j].token
    /\ \A s \in DOMAIN db :
          LET g == ShareGrants(s)
          IN  g # <<>>
                => /\ FindIdByShareToken(db, g[Len(g)].token) = s
                   /\ \A i \in 1..(Len(g) - 1) :
                         FindIdByShareToken(db, g[i].token) = 0

\* C16 witness: two share calls on one session, one after the other, were
\* both answered, and the session carries the token of the second.
C16_Witness ==
    \E s \in DOMAIN db :
        LET g == ShareGrants(s)
        IN  /\ Len(g) = 2
            /\ g[1].call < g[2].call
            /\ calls[g[1].call].pc = "done" /\ calls[g[2].call].pc = "done"
            /\ db[s].shareToken = g[2].token

\* C17: no two distinct sessions carry the same share token, and a token a
\* session carries resolves to that session.
C17_TokenIdentifiesOneSession ==
    \A s1 \in DOMAIN db :
        db[s1].shareToken # NoToken
           => /\ \A s2 \in DOMAIN db \ {s1} : db[s2].shareToken # db[s1].shareToken
              /\ FindIdByShareToken(db, db[s1].shareToken) = s1

\* C17 witness: two sessions of one owner both carry a token, one of them
\* its second.
C17_Witness ==
    \E s1, s2 \in DOMAIN db :
        /\ s1 # s2
        /\ db[s1].owner = db[s2].owner
        /\ db[s1].shareToken # NoToken /\ db[s2].shareToken # NoToken
        /\ Cardinality({e \in carried : e.sid = s1}) = 2

\* C18: a getByShareToken request, the store working, changes no session;
\* it is answered NotFound when no session carries the token, and otherwise,
\* whoever sent it and with or without a credential, with the session that
\* carries the token, messages included.
C18_ShareAccessNeedsNoIdentity ==
    [][(/\ started' = started + 1 /\ out'.call = started'
        /\ out'.op = "shared" /\ ~out'.fault)
          => LET holders == {s \in DOMAIN db : db[s].shareToken = out'.token}
             IN  /\ db' = db
                 /\ holders = {} => (out'.kind = "NotFound" /\ out'.status = 404)
                 /\ holders # {}
                      => /\ out'.kind = "ok" /\ out'.status = 200
                         /\ out'.sid \in holders
                         /\ out'.body # <<>>
                         /\ out'.body[1].messages = db[out'.sid].messages]_vars

\* C18 witness: a request without a credential is answered with a shared
\* session that holds an exchange.
C18_Witness ==
    /\ out.op = "shared" /\ out.kind = "ok"
    /\ out.user = NoUser
    /\ out.sid \in DOMAIN db
    /\ db[out.sid].owner \in Users
    /\ Len(out.body[1].messages) = 2

\* The sessions a delete call was answered with success for.
Deleted == {granted[i].sid : i \in {j \in 1..Len(granted) : granted[j].op = "delete"}}

\* The tokens session s has carried.
CarriedBy(s) == {e.token : e \in {x \in carried : x.sid = s}}

\* C19: once a delete call on a session was answered with success, the
\* session is not in the store and none of the tokens it carried resolves;
\* and a response sent after that (the store working) omits the session if
\* it is a listing for its owner, is NotFound if it answers a getSession on
\* its id, and is NotFound if it answers a getByShareToken on one of its
\* tokens.
C19_DeletedStaysGone ==
    \A s \in Deleted :
        /\ s \notin DOMAIN db
        /\ \A t \in CarriedBy(s) : FindIdByShareToken(db, t) = 0
        /\ (out.op = "list" /\ out.kind = "ok" /\ out.user = creator[s])
              => \A i \in 1..Len(out.list) : out.list[i] # s
        /\ (out.op = "get" /\ out.user \in Users /\ out.sid = s /\ ~out.fault)
              => out.kind = "NotFound"
        /\ (out.op = "shared" /\ out.token \in CarriedBy(s) /\ ~out.fault)
              => out.kind = "NotFound"

\* C19 witness: a session that carried a token was deleted by its owner, and
\* a later getByShareToken on that token is answered NotFound.
C19_Witness ==
    \E s \in Deleted :
        /\ out.op = "shared" /\ out.kind = "NotFound"
        /\ out.token \in CarriedBy(s)
        /\ \E i \in 1..Len(granted) :
              granted[i].op = "delete" /\ granted[i].sid = s /\ granted[i].call < out.call

\* C20 (as stated): for every session id at most one delete call is ever
\* answered with success.
C20_AtMostOneDeleteSucceeds ==
    \A i, j \in 1..Len(granted) :
        (/\ granted[i].op = "delete" /\ granted[j].op = "delete"
         /\ granted[i].sid = granted[j].sid)
           => i = j

\* C21: a listSessions request of an authenticated caller, the store
\* working, changes no session and is answered with the sessions in the store
\* whose owner is the caller, each once and no other, a session never
\* listed after one whose lastUpdated is smaller.
C21_ListIsOwnedSortedDesc ==
    [][(/\ started' = started + 1 /\ out'.call = started'
        /\ out'.op = "list" /\ out'.user \in Users /\ ~out'.fault)
          => LET list == out'.list
             IN  /\ db' = db
                 /\ out'.kind = "ok"
                 /\ {list[i] : i \in 1..Len(list)}
                       = {s \in DOMAIN db : db[s].owner = out'.user}
                 /\ \A i, j \in 1..Len(list) :
                       i < j => /\ list[i] # list[j]
                                /\ db[list[i]].lastUpdated >= db[list[j]].lastUpdated]_vars

\* C21 witness: a listing of three sessions whose order is neither that of
\* their ids nor its reverse, while the store holds a session of another
\* user.
C21_Witness ==
    /\ out.op = "list" /\ out.kind = "ok"
    /\ Len(out.list) = 3
    /\ out.list[2] < out.list[3] /\ out.list[2] < out.list[1]
    /\ \E s \in DOMAIN db : db[s].owner # out.user

\* C22: a createSession request of an authenticated caller, the store
\* working, adds one session under an id no session has or has had, and
\* changes no other; the new session's owner is the caller, it has no
\* messages and no share token, and its title is the title of the request
\* when that is a non-empty text and 'New Chat' when it is missing or empty.
C22_CreateAddsFreshSession ==
    [][(/\ started' = started + 1 /\ out'.call = started'
        /\ out'.op = "create" /\ out'.user \in Users /\ ~out'.fault)
          => LET s == out'.sid
             IN  /\ out'.kind = "ok"
                 /\ s \notin DOMAIN db /\ s \notin DOMAIN creator
                 /\ DOMAIN db' = DOMAIN db \cup {s}
                 /\ \A u \in DOMAIN db : db'[u] = db[u]
                 /\ db'[s].owner = out'.user
                 /\ db'[s].messages = <<>>
                 /\ db'[s].shareToken = NoToken
                 /\ db'[s].title = IF out'.input \in {Undefined, Empty}
                                   THEN <<"N", "e", "w", " ", "C", "h", "a", "t">>
                                   ELSE out'.input
                 /\ out'.body = <<db'[s]>>]_vars

\* C22 witness: a session created with a title of the caller's, beside the
\* sessions of another user, which are as they were.
C22_Witness ==
    /\ out.op = "create" /\ out.kind = "ok"
    /\ out.input = <<"T">>
    /\ out.sid \in DOMAIN db
    /\ db[out.sid].title = <<"T">>
    /\ \E u \in DOMAIN db : db[u].owner # out.user /\ Len(db[u].messages) = 2

\* C23: a session comes into the store without a share token, and a step
\* changes the share token of a session only when it is the update of a share
\* call of the session's owner, which sets the token the call is answered
\* with; no step clears a token.
C23_OnlyShareSetsToken ==
    [][\A s \in DOMAIN db' :
          LET old == IF s \in DOMAIN db THEN db[s].shareToken ELSE NoToken
          IN  db'[s].shareToken # old
                => \E c \in Calls :
                      /\ calls[c].op = "share" /\ calls[c].pc = "share"
                      /\ calls[c].sid = s
                      /\ calls[c].user = creator[s]
                      /\ out'.call = c /\ out'.op = "share" /\ out'.kind = "ok"
                      /\ out'.token # NoToken
                      /\ db'[s].shareToken = out'.token]_vars

\* C23 witness: a session that was given a token has since had an exchange
\* appended and its title derived, and carries that token.
C23_Witness ==
    \E s \in DOMAIN db :
        /\ db[s].shareToken # NoToken
        /\ CarriedBy(s) = {db[s].shareToken}
        /\ \E e \in retitled : e.sid = s /\ e.call > 2
        /\ db[s].title = DeriveTitle(Word)

\* The routes registered with authMiddleware.
Guarded == {"list", "create", "get", "delete", "share", "relay"}

\* C24: a request to a route other than getByShareToken whose credential
\* does not verify is answered Unauthenticated (401) and nothing else, in a
\* step that changes no session and draws no id, token or timestamp; and no
\* handler is ever in flight without a verified user.
C24_NoCredentialNoAccess ==
    /\ []((out.op \in Guarded /\ out.user = NoUser)
             => /\ out.kind = "Unauthenticated" /\ out.status = 401
                /\ out.body = <<>> /\ out.list = <<>>
                /\ out.reply = Undefined /\ out.token = NoToken
                /\ out.fetched = <<>> /\ ~out.appended /\ ~out.titled)
    /\ [](\A c \in Calls : calls[c].pc \notin {"idle", "done"} => calls[c].user \in Users)
    /\ [][(/\ started' = started + 1 /\ out'.call = started'
           /\ out'.op \in Guarded /\ out'.user = NoUser)
              => /\ db' = db
                 /\ nextId' = nextId /\ nextTok' = nextTok /\ now' = now
                 /\ calls'[started'].pc = "done"]_vars

\* C24 witness: a relay request without a valid credential is refused while
\* the store holds a session with an exchange.
C24_Witness ==
    /\ out.op = "relay" /\ out.kind = "Unauthenticated"
    /\ \E s \in DOMAIN db : Len(db[s].messages) = 2

\* The relay calls on session s that read a count of 2 and are about to
\* write, or have written, the title.
TitleWriters(s) ==
    {c \in Calls : calls[c].pc = "title" /\ calls[c].sid = s}
       \cup {e.call : e \in {x \in retitled : x.sid = s}}

\* C25: a relay call whose re-read finds exactly 2 messages is the call whose
\* pair is the session's first, so of the relay calls on one session,
\* however they interleave, at most one goes on to write the title.
C25_AtMostOneReadsTwo ==
    /\ [](\A s \in DOMAIN creator : Cardinality(TitleWriters(s)) <= 1)
    /\ [][\A c \in Calls :
             (calls[c].pc = "reread" /\ calls'[c].pc = "title")
                => /\ calls[c].sid \in DOMAIN db
                   /\ Len(db[calls[c].sid].messages) = 2
                   /\ db[calls[c].sid].messages[1].call = c]_vars

\* C25 witness: of two relay calls in flight on a session that was empty,
\* one has read a count of 2 and the other has appended since.
C25_Witness ==
    \E c1, c2 \in Calls :
        /\ c1 # c2
        /\ calls[c1].sid = calls[c2].sid
        /\ calls[c1].pc = "title"
        /\ calls[c2].pc = "reread" /\ calls[c2].appended
        /\ calls[c1].sid \in DOMAIN db
        /\ Len(db[calls[c1].sid].messages) = 4

\* C26: a session's title is a title a create request gives (here always
\* 'New Chat') or the title derived from the content of its first message;
\* every title update that landed on it came from the call that appended its
\* first pair, and a step changes the title of a session only to the title
\* derived from its first message.
C26_TitleCreatedOrDerived ==
    /\ [](\A s \in DOMAIN db :
             /\ \/ db[s].title \in {CreateTitle(h) : h \in TitleHints}
                \/ /\ db[s].messages # <<>>
                   /\ db[s].title = DeriveTitle(db[s].messages[1].content)
             /\ \A e \in retitled :
                   e.sid = s => (db[s].messages # <<>> /\ e.call = db[s].messages[1].call))
    /\ [][\A s \in (DOMAIN db) \cap (DOMAIN db') :
             db'[s].title # db[s].title
                => /\ db[s].messages # <<>>
                   /\ db'[s].title = DeriveTitle(db[s].messages[1].content)
                   /\ db[s].messages[1].role = "user"]_vars

\* C26 witness: a session that holds two exchanges carries the title derived
\* from the first, written by the call that appended it.
C26_Witness ==
    \E s \in DOMAIN db :
        /\ Len(db[s].messages) = 4
        /\ db[s].title = DeriveTitle(db[s].messages[1].content)
        /\ db[s].title # DefaultTitle
        /\ \E e \in retitled : e.sid = s /\ e.call = db[s].messages[1].call
        /\ db[s].messages[3].call # db[s].messages[1].call

\* C27: the title a relay call has written for its utterance u is u when u
\* has at most 50 characters, and the first 50 characters of u followed by
\* '...' when it has more.
C27_DerivedTitleCutsAtFifty ==
    (out.op = "relay" /\ out.titled /\ out.sid \in DOMAIN db)
       => LET u == out.input
              title == db[out.sid].title
          IN  /\ Len(u) <= 50 => title = u
              /\ Len(u) > 50
                   => /\ Len(title) = 53
                      /\ \A i \in 1..50 : title[i] = u[i]
                      /\ title[51] = "." /\ title[52] = "." /\ title[53] = "."

\* C27 witness: the title written for an utterance of 51 characters.
C27_Witness ==
    /\ out.op = "relay" /\ out.titled /\ out.sid \in DOMAIN db
    /\ Len(out.input) = 51
    /\ Len(db[out.sid].title) = 53

\* C28 (as stated): the step in which a $push lands sets the session's
\* lastUpdated to the timestamp of that call, and no step makes the
\* lastUpdated of a session smaller than it was.
C28_LastUpdatedNeverDecreases ==
    [][/\ \A c \in Calls :
             (/\ calls[c].pc \in {"append", "appendBlocked"}
              /\ calls'[c] # calls[c]
              /\ calls[c].sid \in DOMAIN db
              /\ landed' # landed)
                => db'[calls[c].sid].lastUpdated = calls[c].ts
       /\ \A s \in (DOMAIN db) \cap (DOMAIN db') :
             db'[s].lastUpdated >= db[s].lastUpdated]_vars

\* C29 (as stated): with GEMINI_API_KEY set, a relay call answered with
\* success and a reply has had its pair appended to the session by its
\* $push.
C29_SuccessMeansStored ==
    (apiKey /\ out.op = "relay" /\ out.kind = "ok")
       => /\ out.appended
          /\ \E e \in landed :
                /\ e.sid = out.sid /\ e.call = out.call
                /\ e.input = out.input /\ e.reply = out.reply

\* The sessions that were created and are no longer in the store.
Gone == (DOMAIN creator) \ (DOMAIN db)

\* C30: a session that is gone from the store stays gone, whatever updates
\* of relay and share calls were in flight on it; no token written to it,
\* answered for it or drawn for it resolves to a session; and a getSession
\* on its id (authenticated caller, store working) is answered NotFound.
C30_DeletionIsPermanent ==
    /\ [][\A s \in Gone : s \notin DOMAIN db']_vars
    /\ [](\A s \in Gone :
             /\ \A t \in CarriedBy(s) : FindIdByShareToken(db, t) = 0
             /\ \A i \in 1..Len(granted) :
                   (granted[i].op = "share" /\ granted[i].sid = s)
                      => FindIdByShareToken(db, granted[i].token) = 0
             /\ \A c \in Calls :
                   (calls[c].pc = "share" /\ calls[c].sid = s)
                      => FindIdByShareToken(db, calls[c].tok) = 0
             /\ (out.op = "get" /\ out.sid = s /\ out.user \in Users /\ ~out.fault)
                   => out.kind = "NotFound")

\* C30 witness: the $push of a relay call found its session deleted, and the
\* session is still gone.
C30_Witness ==
    \E c \in Calls :
        /\ calls[c].pc = "reread" /\ ~calls[c].appended
        /\ calls[c].sid \in Gone
        /\ \E i \in 1..Len(granted) :
              granted[i].op = "delete" /\ granted[i].sid = calls[c].sid

\* The relay answers that end a call before the provider is turned to.
Refusals == {"InvalidInput", "NotFound", "Forbidden"}

\* C31: the handler issues its fetch to the provider (a call enters "fetch")
\* at most once per relay call, straight from the request's arrival, when
\* the caller is authenticated, the input is truthy, the session is in the
\* store and the caller owns it; a call never returns to the fetch and never
\* holds more than one provider response; and a relay answered InvalidInput,
\* NotFound or Forbidden is answered on arrival, with no fetch issued.
C31_ProviderOnceAfterChecks ==
    [][/\ \A c \in Calls :
             /\ (calls[c].pc # "fetch" /\ calls'[c].pc = "fetch")
                   => /\ calls[c].pc = "idle"
                      /\ calls'[c].op = "relay"
                      /\ calls'[c].user \in Users
                      /\ ~Falsy(calls'[c].input)
                      /\ IsValidObjectId(calls'[c].sid)
                      /\ FindById(db, calls'[c].sid) # <<>>
                      /\ IsOwner(FindById(db, calls'[c].sid)[1], calls'[c].user)
                      /\ calls'[c].fetched = <<>>
             /\ calls[c].pc # "idle" => calls'[c].pc # "idle"
             /\ calls[c].pc \notin {"idle", "fetch"} => calls'[c].pc # "fetch"
             /\ Len(calls'[c].fetched) <= 1
       /\ (out' # out /\ out'.op = "relay" /\ out'.kind \in Refusals)
             => /\ calls[out'.call].pc = "idle"
                /\ out'.fetched = <<>>]_vars

\* C31 witness: one relay call holds the provider's single response and is
\* past the fetch, while another user's relay on a session has just been
\* answered Forbidden without a fetch.
C31_Witness ==
    /\ out.op = "relay" /\ out.kind = "Forbidden" /\ out.fetched = <<>>
    /\ \E c \in Calls :
          /\ calls[c].pc \in {"append", "appendBlocked"}
          /\ Len(calls[c].fetched) = 1

====
